---- MODULE Spec2Model ----
(***************************************************************************)
(* SmartResume scoring engine: ResumeScorer (backend/resume_scorer.py),    *)
(* its enrichment adapter GeminiService (backend/services/                 *)
(* gemini_service.py) and the HTTP callers of backend/main.py.             *)
(*                                                                         *)
(* Numbers.  Scores are Python floats; they are modelled in fixed point,   *)
(* one unit = 1/10000 of a score point (Pt units per point), divisions     *)
(* truncating at that resolution.  round(x, 2) is Round2 (half to even).   *)
(*                                                                         *)
(* Texts.  A text is represented by what the scorer reads from it: its     *)
(* length, its stripped length, and the results of the regular-expression  *)
(* and substring searches the component scorers make on it.                *)
(*                                                                         *)
(* Python values.  None is the empty sequence <<>>, a present value v is   *)
(* <<v>>; a call that raises yields a record with raised = TRUE.           *)
(***************************************************************************)
EXTENDS Integers, Sequences, FiniteSets, TLC

VARIABLES
    scorer,          \* main.py module global `scorer`: "unset", "None", "ready"
    gemini_service,  \* ResumeScorer.gemini_service: "None", "enabled", "disabled"
    pc,              \* position of the request being served
    via,             \* who called: "direct", "quick_score", "analyze_resume"
    request,         \* the texts handed to the caller: [resume, jd]
    inp,             \* the arguments with which score is (or would be) called
    loc,             \* locals of ResumeScorer.score that live across the enrichment call
    result,          \* the dict returned by ResumeScorer.score (<<>> until it returns)
    analysis,        \* what GeminiService.analyze_resume handed back (<<>> if not called)
    http_status,     \* status code of the HTTP response (0 for none)
    calls,           \* per-request call counters
    built,           \* how ResumeScorer() went at start-up (<<>> before it ran)
    frames,          \* the activations of ResumeScorer.score running concurrently
    fin,             \* scorer_final: artifact loads so far and the last score_resume call
    pf               \* the last application of a pure function: [fn, arg, out]

vars == <<scorer, gemini_service, pc, via, request, inp, loc, result, analysis, http_status,
          calls, built, frames, fin, pf>>

\* the variables the request handlers of main.py do not touch
others == <<frames, fin, pf>>

\* the variables of one request through main.py
handlerVars == <<scorer, gemini_service, pc, via, request, inp, loc, result, analysis,
                 http_status, calls, built>>

----------------------------------------------------------------------------
(* Bounds of the model *)

MaxKw      == 3    \* JD keywords considered
MaxPhr     == 2    \* JD phrases considered
MaxYears   == 4    \* largest years-of-experience value
MaxSkills  == 3    \* size of the skill universe
MaxSug     == 2    \* length of the enumerated suggestion lists
MaxPad     == 1    \* whitespace padding steps around a text
MaxItems   == 2    \* items of a comma-separated skills argument
MaxMentions == 1   \* mentions of years of experience in a job description
MaxWords   == 2    \* distinct words of a job description (scorer_final)
MaxBullets == 2    \* bullet lines of a resume (scorer_final)
MaxCalls   == 2    \* calls of scorer_final.score_resume in one process
MaxThreads == 2    \* calls of ResumeScorer.score in progress at the same time

(* Program constants *)

Pt            == 100 * 100   \* fixed-point units per score point
MIN_RESUME    == 50
MIN_JD        == 20
MAX_RECS      == 15
MAX_BASE_RECS == 5
MAX_SUGGEST   == 10
ATS_MIN_LEN   == 500
ATS_MAX_LEN   == 5000
MAX_MISSING   == 10
MIN_WORD_LENGTH == 4

Min(a, b) == IF a <= b THEN a ELSE b
Max(a, b) == IF a >= b THEN a ELSE b

None    == <<>>
Some(v) == <<v>>

\* Python round(x, 2) on a value in Pt units: to a multiple of Pt/100, ties to even
Round2(x) ==
    LET step == Pt \div 100
        q == x \div step
        r == x % step
    IN  IF 2 * r > step THEN (q + 1) * step
        ELSE IF 2 * r < step THEN q * step
        ELSE IF q % 2 = 0 THEN q * step ELSE (q + 1) * step

----------------------------------------------------------------------------
(* Class constants of ResumeScorer *)

WEIGHTS == [keyword_match |-> 25, semantic_similarity |-> 20, skills_match |-> 25,
            experience_match |-> 10, ats_formatting |-> 10, section_completeness |-> 10]

ComponentNames == {"keyword_match", "semantic_similarity", "skills_match",
                   "experience_match", "ats_formatting", "section_completeness"}

REQUIRED_SECTIONS == {"experience", "education", "skills", "summary", "objective",
                      "work", "employment"}

essential_sections == {"experience", "education", "skills"}
optional_sections  == {"summary", "objective", "projects", "certifications"}

SectionWords == REQUIRED_SECTIONS \cup optional_sections

----------------------------------------------------------------------------
(* Component scorers *)

\* variant: the phrase bonus is added without the min(100, ...) cap
_calculate_keyword_match_uncapped(kw) ==
    IF kw.n = 0 THEN 50 * Pt
    ELSE LET match_rate == (kw.matches * 100 * Pt) \div kw.n
         IN  IF kw.nphr > 0
             THEN match_rate + (kw.exact * 10 * Pt) \div kw.nphr
             ELSE match_rate

\* variant: the phrase bonus is worth up to 15 points
_calculate_keyword_match_bonus15(kw) ==
    IF kw.n = 0 THEN 50 * Pt
    ELSE LET match_rate == (kw.matches * 100 * Pt) \div kw.n
         IN  IF kw.nphr > 0
             THEN Min(100 * Pt, match_rate + (kw.exact * 15 * Pt) \div kw.nphr)
             ELSE match_rate

\* kw.n = len(jd_keywords), kw.matches = those found in the resume,
\* kw.nphr = len(exact_phrases), kw.exact = those found in the resume
_calculate_keyword_match(kw) ==
    IF kw.n = 0 THEN 50 * Pt
    ELSE LET match_rate == (kw.matches * 100 * Pt) \div kw.n
         IN  IF kw.nphr > 0
             THEN Min(100 * Pt, match_rate + (kw.exact * 10 * Pt) \div kw.nphr)
             ELSE match_rate

\* variant: a failing embedding call scores 0
_calculate_semantic_similarity_zero_on_error(emb) ==
    IF emb.raised THEN 0
    ELSE Max(0, Min(100 * Pt, emb.cos * 100))

\* emb.raised: encode or cos_sim raised; emb.cos: the cosine in 1/10000
_calculate_semantic_similarity(emb) ==
    IF emb.raised THEN 50 * Pt
    ELSE Max(0, Min(100 * Pt, emb.cos * 100))

\* variant: the penalty also hits a resume with exactly three skills
_calculate_skills_match_penalty_le3(sk) ==
    LET resume_skills_all == sk.skills_resume \cup sk.resume_extracted
        jd_skills_all     == sk.skills_jd \cup sk.jd_extracted
        matched_skills    == resume_skills_all \cap jd_skills_all
        match_rate        == (Cardinality(matched_skills) * 100 * Pt)
                                 \div Cardinality(jd_skills_all)
        penalised         == IF Cardinality(resume_skills_all) <= 3
                             THEN (match_rate * 7) \div 10 ELSE match_rate
    IN  IF jd_skills_all = {} THEN 70 * Pt
        ELSE Min(100 * Pt, penalised)

_calculate_skills_match(sk) ==
    LET resume_skills_all == sk.skills_resume \cup sk.resume_extracted
        jd_skills_all     == sk.skills_jd \cup sk.jd_extracted
        matched_skills    == resume_skills_all \cap jd_skills_all
        match_rate        == (Cardinality(matched_skills) * 100 * Pt)
                                 \div Cardinality(jd_skills_all)
        penalised         == IF Cardinality(resume_skills_all) < 3
                             THEN (match_rate * 7) \div 10 ELSE match_rate
    IN  IF jd_skills_all = {} THEN 70 * Pt
        ELSE Min(100 * Pt, penalised)

\* variant: the neutral score is given only after the comparison of the years
_calculate_experience_match_neutral_late(yr) ==
    LET years_resume == IF yr.years_resume = 0 THEN yr.text_resume ELSE yr.years_resume
        years_jd     == IF yr.years_jd = 0 THEN yr.text_jd ELSE yr.years_jd
    IN  IF years_resume >= years_jd
        THEN IF 2 * years_resume <= 3 * years_jd THEN 100 * Pt ELSE 90 * Pt
        ELSE IF years_jd = 0 THEN 75 * Pt
        ELSE Max(30 * Pt, (years_resume * 100 * Pt) \div years_jd)

\* variant: no minimum for the under-qualified
_calculate_experience_match_no_floor(yr) ==
    LET years_resume == IF yr.years_resume = 0 THEN yr.text_resume ELSE yr.years_resume
        years_jd     == IF yr.years_jd = 0 THEN yr.text_jd ELSE yr.years_jd
    IN  IF years_jd = 0 THEN 75 * Pt
        ELSE IF years_resume >= years_jd
             THEN IF 2 * years_resume <= 3 * years_jd THEN 100 * Pt ELSE 90 * Pt
             ELSE (years_resume * 100 * Pt) \div years_jd

\* yr.years_resume, yr.years_jd: the arguments; yr.text_resume, yr.text_jd: what
\* _extract_years_experience finds in the two texts
_calculate_experience_match(yr) ==
    LET years_resume == IF yr.years_resume = 0 THEN yr.text_resume ELSE yr.years_resume
        years_jd     == IF yr.years_jd = 0 THEN yr.text_jd ELSE yr.years_jd
    IN  IF years_jd = 0 THEN 75 * Pt
        ELSE IF years_resume >= years_jd
             THEN IF 2 * years_resume <= 3 * years_jd THEN 100 * Pt ELSE 90 * Pt
             ELSE Max(30 * Pt, (years_resume * 100 * Pt) \div years_jd)

\* variant: exactly three paragraph breaks are still penalised
_calculate_ats_score_breaks_le3(resume, ats, sections) ==
    LET checks == [has_email   |-> ats.has_email,
                   has_phone   |-> ats.has_phone,
                   has_bullets |-> ats.has_bullets,
                   has_dates   |-> ats.has_dates,
                   reasonable_length |-> (ATS_MIN_LEN <= resume.len /\ resume.len <= ATS_MAX_LEN),
                   has_sections |-> (sections \cap REQUIRED_SECTIONS # {})]
        failed == Cardinality({c \in DOMAIN checks : ~checks[c]})
        score1 == 100 * Pt - 15 * Pt * failed
        score2 == IF ats.non_ascii_over_20 THEN score1 - 10 * Pt ELSE score1
        score3 == IF ats.par_breaks <= 3 THEN score2 - 10 * Pt ELSE score2
    IN  Max(0, Min(100 * Pt, score3))

_calculate_ats_score(resume, ats, sections) ==
    LET checks == [has_email   |-> ats.has_email,
                   has_phone   |-> ats.has_phone,
                   has_bullets |-> ats.has_bullets,
                   has_dates   |-> ats.has_dates,
                   reasonable_length |-> (ATS_MIN_LEN <= resume.len /\ resume.len <= ATS_MAX_LEN),
                   has_sections |-> (sections \cap REQUIRED_SECTIONS # {})]
        failed == Cardinality({c \in DOMAIN checks : ~checks[c]})
        score1 == 100 * Pt - 15 * Pt * failed
        score2 == IF ats.non_ascii_over_20 THEN score1 - 10 * Pt ELSE score1
        score3 == IF ats.par_breaks < 3 THEN score2 - 10 * Pt ELSE score2
    IN  Max(0, Min(100 * Pt, score3))

_calculate_section_completeness(sections) ==
    LET essential_found == Cardinality(sections \cap essential_sections)
        optional_found  == Cardinality(sections \cap optional_sections)
        essential_score == (essential_found * 70 * Pt) \div Cardinality(essential_sections)
        optional_score  == (optional_found * 30 * Pt) \div Cardinality(optional_sections)
    IN  essential_score + optional_score

ScoreComponents(i) ==
    [keyword_match        |-> _calculate_keyword_match(i.kw),
     semantic_similarity  |-> _calculate_semantic_similarity(i.emb),
     skills_match         |-> _calculate_skills_match(i.sk),
     experience_match     |-> _calculate_experience_match(i.yr),
     ats_formatting       |-> _calculate_ats_score(i.resume, i.ats, i.sections),
     section_completeness |-> _calculate_section_completeness(i.sections)]

to_dict(components) == [k \in ComponentNames |-> Round2(components[k])]

\* sum(getattr(components, key) * weight for key, weight in WEIGHTS.items())
WeightedSum(components) ==
    (components.keyword_match * WEIGHTS.keyword_match
     + components.semantic_similarity * WEIGHTS.semantic_similarity
     + components.skills_match * WEIGHTS.skills_match
     + components.experience_match * WEIGHTS.experience_match
     + components.ats_formatting * WEIGHTS.ats_formatting
     + components.section_completeness * WEIGHTS.section_completeness) \div 100

----------------------------------------------------------------------------
(* Strings.  The recommendation texts are abbreviated to their first words; *)
(* str.lower() is the function Lower on the strings of the model.  A JSON   *)
(* array element that is not a string (a number, an object) is NonString.   *)

REC_KEYWORDS   == "Add more relevant keywords"
REC_SKILLS     == "Highlight more skills"
REC_ATS        == "Improve ATS compatibility"
REC_SECTIONS   == "Add missing sections"
REC_EXPERIENCE == "Emphasize your years of experience"
REC_POSITIVE   == "Great job!"

NonString == "<number 7>"

Lower(s) ==
    CASE s = "Add more relevant keywords"         -> "add more relevant keywords"
      [] s = "Highlight more skills"              -> "highlight more skills"
      [] s = "Improve ATS compatibility"          -> "improve ats compatibility"
      [] s = "Add missing sections"               -> "add missing sections"
      [] s = "Emphasize your years of experience" -> "emphasize your years of experience"
      [] s = "Great job!"                         -> "great job!"
      [] s = "Quantify your achievements"         -> "quantify your achievements"
      [] OTHER                                    -> s

\* s[:n] on a list
Take(s, n) == IF Len(s) <= n THEN s ELSE SubSeq(s, 1, n)

Range(s) == {s[k] : k \in 1..Len(s)}

\* variant: the experience rule is tested first
_generate_recommendations_experience_first(components) ==
    LET r1 == IF components.keyword_match < 60 * Pt THEN <<REC_KEYWORDS>> ELSE <<>>
        r2 == IF components.skills_match < 50 * Pt THEN <<REC_SKILLS>> ELSE <<>>
        r3 == IF components.ats_formatting < 70 * Pt THEN <<REC_ATS>> ELSE <<>>
        r4 == IF components.section_completeness < 70 * Pt THEN <<REC_SECTIONS>> ELSE <<>>
        r5 == IF components.experience_match < 60 * Pt THEN <<REC_EXPERIENCE>> ELSE <<>>
        recommendations == r5 \o r1 \o r2 \o r3 \o r4
    IN  Take(IF recommendations = <<>> THEN <<REC_POSITIVE>> ELSE recommendations,
             MAX_BASE_RECS)

_generate_recommendations(components) ==
    LET r1 == IF components.keyword_match < 60 * Pt THEN <<REC_KEYWORDS>> ELSE <<>>
        r2 == IF components.skills_match < 50 * Pt THEN <<REC_SKILLS>> ELSE <<>>
        r3 == IF components.ats_formatting < 70 * Pt THEN <<REC_ATS>> ELSE <<>>
        r4 == IF components.section_completeness < 70 * Pt THEN <<REC_SECTIONS>> ELSE <<>>
        r5 == IF components.experience_match < 60 * Pt THEN <<REC_EXPERIENCE>> ELSE <<>>
        recommendations == r1 \o r2 \o r3 \o r4 \o r5
    IN  Take(IF recommendations = <<>> THEN <<REC_POSITIVE>> ELSE recommendations,
             MAX_BASE_RECS)

_get_match_level(score) ==
    IF score >= 80 * Pt THEN "Excellent Match"
    ELSE IF score >= 60 * Pt THEN "Good Match"
    ELSE IF score >= 40 * Pt THEN "Fair Match"
    ELSE "Needs Improvement"

----------------------------------------------------------------------------
(* GeminiService *)

\* GeminiService.__init__: the value of self.enabled
GeminiService__init__(has_api_key, configure_ok) ==
    IF ~has_api_key THEN FALSE
    ELSE IF configure_ok THEN TRUE ELSE FALSE

\* lines of the raw text: [bullet |-> starts with '-', '•' or '*',
\*                         body |-> the line after lstrip('-•* ').strip(), blen |-> len(body)]
_extract_suggestions_from_text(lines) ==
    LET keep(l) == l.bullet /\ l.blen > 20
    IN  Take(SelectSeq([k \in 1..Len(lines) |-> lines[k]], keep), MAX_SUGGEST)

BodiesOf(ls) == [k \in 1..Len(ls) |-> ls[k].body]

\* _parse_gemini_response(response.text).  resp.kind: "not_json" (json.loads raises
\* JSONDecodeError), "json_other" (valid JSON that is not an object), "json_object".
\* Result: raised (an exception other than JSONDecodeError left the function),
\* gemini_score (None or a number), suggestions, sliceable (suggestions is a list)
_parse_gemini_response(resp) ==
    IF resp.kind = "not_json"
    THEN [raised |-> FALSE, gemini_score |-> None,
          suggestions |-> BodiesOf(_extract_suggestions_from_text(resp.lines)),
          is_list |-> TRUE]
    ELSE IF resp.kind = "json_other"
    THEN [raised |-> TRUE, gemini_score |-> None, suggestions |-> <<>>, is_list |-> TRUE]
    ELSE \* float(analysis.get("gemini_score", 0))
         IF resp.score.t \in {"null", "text"}
         THEN [raised |-> TRUE, gemini_score |-> None, suggestions |-> <<>>, is_list |-> TRUE]
         \* analysis.get("suggestions", [])[:10]
         ELSE IF resp.suggestions.t = "unsliceable"
         THEN [raised |-> TRUE, gemini_score |-> None, suggestions |-> <<>>, is_list |-> TRUE]
         ELSE [raised |-> FALSE,
               gemini_score |-> Some(IF resp.score.t = "absent" THEN 0 ELSE resp.score.v),
               suggestions |-> IF resp.suggestions.t = "absent" THEN <<>>
                               ELSE Take(resp.suggestions.v, MAX_SUGGEST),
               is_list |-> resp.suggestions.t # "string"]

\* the dict of the two `return` statements that give up (not enabled, except branch)
FallbackAnalysis(ml_score) ==
    [raised |-> FALSE, failed |-> TRUE, gemini_score |-> None,
     combined_score |-> Some(ml_score), ai_suggestions |-> <<>>, is_list |-> TRUE]

\* variant: a missing score counts as 0 instead of raising TypeError
analyze_resume_none_as_zero(enabled, ml_score, resp) ==
    IF ~enabled THEN FallbackAnalysis(ml_score)
    ELSE IF resp.kind = "raise" THEN FallbackAnalysis(ml_score)
    ELSE LET parsed == _parse_gemini_response(resp)
             g == IF parsed.gemini_score = None THEN 0 ELSE parsed.gemini_score[1]
         IN  IF parsed.raised THEN FallbackAnalysis(ml_score)
             ELSE [raised |-> FALSE, failed |-> FALSE,
                   gemini_score |-> parsed.gemini_score,
                   combined_score |-> Some(Round2((ml_score * 6 + g * 4) \div 10)),
                   ai_suggestions |-> parsed.suggestions,
                   is_list |-> parsed.is_list]

\* variant: no try/except around the body, exceptions reach the caller
analyze_resume_no_except(enabled, ml_score, resp) ==
    IF ~enabled THEN FallbackAnalysis(ml_score)
    ELSE LET parsed == _parse_gemini_response(resp)
         IN  IF resp.kind = "raise" \/ parsed.raised \/ parsed.gemini_score = None
             THEN [FallbackAnalysis(ml_score) EXCEPT !.raised = TRUE]
             ELSE [raised |-> FALSE, failed |-> FALSE,
                   gemini_score |-> parsed.gemini_score,
                   combined_score |->
                       Some(Round2((ml_score * 6 + parsed.gemini_score[1] * 4) \div 10)),
                   ai_suggestions |-> parsed.suggestions,
                   is_list |-> parsed.is_list]

\* GeminiService.analyze_resume once generate_content has answered with resp
\* (resp.kind = "raise": generate_content raised)
analyze_resume(enabled, ml_score, resp) ==
    IF ~enabled THEN FallbackAnalysis(ml_score)
    ELSE IF resp.kind = "raise" THEN FallbackAnalysis(ml_score)
    ELSE LET parsed == _parse_gemini_response(resp)
         IN  IF parsed.raised THEN FallbackAnalysis(ml_score)
             \* analysis.get("gemini_score", ml_score) * 0.4 with the key present
             \* and None: TypeError
             ELSE IF parsed.gemini_score = None THEN FallbackAnalysis(ml_score)
             ELSE [raised |-> FALSE, failed |-> FALSE,
                   gemini_score |-> parsed.gemini_score,
                   combined_score |->
                       Some(Round2((ml_score * 6 + parsed.gemini_score[1] * 4) \div 10)),
                   ai_suggestions |-> parsed.suggestions,
                   is_list |-> parsed.is_list]

----------------------------------------------------------------------------
(* ResumeScorer.score *)

RECURSIVE Dedup(_, _)
\* lines 166-172: keep the first occurrence of each rec.lower()
Dedup(recs, seen) ==
    IF recs = <<>> THEN <<>>
    ELSE LET rec == Head(recs)
             rec_lower == Lower(rec)
         IN  IF rec_lower \notin seen
             THEN <<rec>> \o Dedup(Tail(recs), seen \cup {rec_lower})
             ELSE Dedup(Tail(recs), seen)

\* if gemini_analysis.get("combined_score"): a number is truthy unless it is 0
Truthy(opt) == opt # None /\ opt[1] # 0

\* lines 155-177 of score, entered when analyze_resume has handed back ga:
\* the values of final_score, all_recommendations and gemini_analysis at line 179
MergeAnalysis(ml_score, base_recommendations, ga) ==
    IF ga.raised
    THEN [final_score |-> ml_score, all_recommendations |-> base_recommendations,
          gemini_analysis |-> None]
    ELSE LET final_score == IF Truthy(ga.combined_score) THEN ga.combined_score[1]
                            ELSE ml_score
             ai_suggestions == ga.ai_suggestions
         IN  IF ~ga.is_list
             \* a non-empty str: base_recommendations + ai_suggestions raises TypeError
             THEN [final_score |-> final_score,
                   all_recommendations |-> base_recommendations,
                   gemini_analysis |-> None]
             ELSE IF ai_suggestions = <<>>
             THEN [final_score |-> final_score,
                   all_recommendations |-> base_recommendations,
                   gemini_analysis |-> Some(ga)]
             ELSE IF NonString \in Range(ai_suggestions)
             \* rec.lower() raises AttributeError after line 164 has run
             THEN [final_score |-> final_score,
                   all_recommendations |-> base_recommendations \o ai_suggestions,
                   gemini_analysis |-> None]
             ELSE [final_score |-> final_score,
                   all_recommendations |->
                       Take(Dedup(base_recommendations \o ai_suggestions, {}), MAX_RECS),
                   gemini_analysis |-> Some(ga)]

\* variant: ml_score reports the final score
ScoreResult_ml_is_final(components, ml_score, m) ==
    [overall_score   |-> Round2(m.final_score),
     ml_score        |-> Round2(m.final_score),
     score_breakdown |-> to_dict(components),
     recommendations |-> m.all_recommendations,
     match_level     |-> _get_match_level(m.final_score),
     ai_analysis     |-> IF m.gemini_analysis # None
                         THEN Some([enabled |-> TRUE,
                                    gemini_score |-> m.gemini_analysis[1].gemini_score,
                                    combined_score |-> m.gemini_analysis[1].combined_score])
                         ELSE None]

\* variant: the ai_analysis block is built even when gemini_analysis is empty
ScoreResult_always_block(components, ml_score, m) ==
    [overall_score   |-> Round2(m.final_score),
     ml_score        |-> Round2(ml_score),
     score_breakdown |-> to_dict(components),
     recommendations |-> m.all_recommendations,
     match_level     |-> _get_match_level(m.final_score),
     ai_analysis     |-> IF m.gemini_analysis # None
                         THEN Some([enabled |-> TRUE,
                                    gemini_score |-> m.gemini_analysis[1].gemini_score,
                                    combined_score |-> m.gemini_analysis[1].combined_score])
                         ELSE Some([enabled |-> FALSE, gemini_score |-> None,
                                    combined_score |-> None])]

\* the dict of lines 179-196
ScoreResult(components, ml_score, m) ==
    [overall_score   |-> Round2(m.final_score),
     ml_score        |-> Round2(ml_score),
     score_breakdown |-> to_dict(components),
     recommendations |-> m.all_recommendations,
     match_level     |-> _get_match_level(m.final_score),
     ai_analysis     |-> IF m.gemini_analysis # None
                         THEN Some([enabled |-> TRUE,
                                    gemini_score |-> m.gemini_analysis[1].gemini_score,
                                    combined_score |-> m.gemini_analysis[1].combined_score])
                         ELSE None]

\* variant: only the resume is validated
InputTooShort_resume_only(i) == i.resume.stripped < MIN_RESUME

\* lines 117-121
InputTooShort(i) == i.resume.stripped < MIN_RESUME \/ i.jd.stripped < MIN_JD

\* what happened in ResumeScorer.__init__: did the embedding model load, and how
\* did the initialisation of the enrichment service go (it is not reached when
\* the embedding model fails)
HowBuilt(embed_ok, use_gemini, import_ok, has_api_key, configure_ok) ==
    [embed_ok |-> embed_ok,
     gemini_init |-> IF ~embed_ok THEN "not_reached"
                     ELSE IF ~use_gemini THEN "not_requested"
                     ELSE IF ~import_ok THEN "import_error"
                     ELSE IF ~has_api_key THEN "no_key"
                     ELSE IF ~configure_ok THEN "configure_error"
                     ELSE "ok"]

\* variant: a failing import of the enrichment service is not caught
ResumeScorer__init__gemini_raises(embed_ok, use_gemini, import_ok, has_api_key, configure_ok) ==
    IF ~embed_ok \/ (use_gemini /\ ~import_ok)
    THEN [raised |-> TRUE, gemini_service |-> "None"]
    ELSE IF ~use_gemini THEN [raised |-> FALSE, gemini_service |-> "None"]
    ELSE [raised |-> FALSE,
          gemini_service |-> IF GeminiService__init__(has_api_key, configure_ok)
                             THEN "enabled" ELSE "disabled"]

\* ResumeScorer.__init__: raised (the embedding model failed to load) and the
\* value of self.gemini_service
ResumeScorer__init__(embed_ok, use_gemini, import_ok, has_api_key, configure_ok) ==
    IF ~embed_ok THEN [raised |-> TRUE, gemini_service |-> "None"]
    ELSE IF ~use_gemini THEN [raised |-> FALSE, gemini_service |-> "None"]
    ELSE IF ~import_ok THEN [raised |-> FALSE, gemini_service |-> "None"]
    ELSE [raised |-> FALSE,
          gemini_service |-> IF GeminiService__init__(has_api_key, configure_ok)
                             THEN "enabled" ELSE "disabled"]

NoCalls == [score |-> 0, components |-> 0, embedder |-> 0, gemini |-> 0]

\* HTTP status once score has returned or raised ValueError (0: no HTTP caller)
StatusAfterScore(caller, raisedValueError) ==
    IF caller = "direct" THEN 0
    ELSE IF ~raisedValueError THEN 200
    ELSE IF caller = "analyze_resume" THEN 400 ELSE 500

\* score(...) up to the enrichment call, or to its return when there is none
ScoreEnter(caller, i) ==
    /\ via' = caller
    /\ inp' = Some(i)
    /\ analysis' = None
    /\ IF InputTooShort(i)
       THEN /\ pc' = "raised"
            /\ loc' = None
            /\ result' = None
            /\ calls' = [NoCalls EXCEPT !.score = 1]
            /\ http_status' = StatusAfterScore(caller, TRUE)
       ELSE LET components == ScoreComponents(i)
                ml_score == WeightedSum(components)
                base_recommendations == _generate_recommendations(components)
            IN  IF gemini_service = "enabled"
                THEN /\ pc' = "enrich"
                     /\ loc' = Some([components |-> components, ml_score |-> ml_score,
                                     base_recommendations |-> base_recommendations])
                     /\ result' = None
                     /\ calls' = [score |-> 1, components |-> 6, embedder |-> 1,
                                  gemini |-> 1]
                     /\ http_status' = 0
                ELSE /\ pc' = "returned"
                     /\ loc' = Some([components |-> components, ml_score |-> ml_score,
                                     base_recommendations |-> base_recommendations])
                     /\ result' = Some(ScoreResult(components, ml_score,
                                           [final_score |-> ml_score,
                                            all_recommendations |-> base_recommendations,
                                            gemini_analysis |-> None]))
                     /\ calls' = [score |-> 1, components |-> 6, embedder |-> 1,
                                  gemini |-> 0]
                     /\ http_status' = StatusAfterScore(caller, FALSE)

----------------------------------------------------------------------------
(* The inputs the model draws *)

RECURSIVE SeqsUpTo(_, _)
\* all sequences over S of length at most n
SeqsUpTo(S, n) ==
    IF n = 0 THEN {<<>>}
    ELSE LET shorter == SeqsUpTo(S, n - 1)
         IN  shorter \cup {Append(q, x) : q \in shorter, x \in S}

Text(stripped, pad) == [len |-> stripped + pad, stripped |-> stripped]

ResumeTexts ==
    {Text(n, p) : n \in {0, MIN_RESUME - 1, MIN_RESUME, ATS_MIN_LEN - 1, ATS_MIN_LEN,
                         ATS_MAX_LEN, ATS_MAX_LEN + 1},
                  p \in 0..MaxPad}

JdTexts == {Text(n, p) : n \in {0, MIN_JD - 1, MIN_JD, 10 * MIN_JD}, p \in 0..MaxPad}

KwDomain ==
    {[n |-> n, matches |-> m, nphr |-> q, exact |-> e] :
        n \in 0..MaxKw, m \in 0..MaxKw, q \in 0..MaxPhr, e \in 0..MaxPhr}

KwInputs == {k \in KwDomain : k.matches <= k.n /\ k.exact <= k.nphr}

EmbInputs ==
    {[raised |-> TRUE, cos |-> 0]}
    \cup {[raised |-> FALSE, cos |-> c] : c \in {0 - Pt - 1, 0 - Pt, 0, Pt \div 2, Pt, Pt + 1}}

SkillList == <<"python", "sql", "aws", "docker", "excel", "git">>
SkillNames == {SkillList[k] : k \in 1..MaxSkills}

YearValues == 0..MaxYears

AtsInputs ==
    [has_email : BOOLEAN, has_phone : BOOLEAN, has_bullets : BOOLEAN, has_dates : BOOLEAN,
     non_ascii_over_20 : BOOLEAN, par_breaks : 0..3]

\* the weakest and the strongest valid input; the inputs of the model differ from
\* one of them in one group of arguments
LoInput ==
    [resume |-> Text(MIN_RESUME, 0), jd |-> Text(MIN_JD, 0),
     kw |-> [n |-> 1, matches |-> 0, nphr |-> 0, exact |-> 0],
     emb |-> [raised |-> FALSE, cos |-> 0 - Pt],
     sk |-> [skills_resume |-> {}, skills_jd |-> {SkillList[1]},
             resume_extracted |-> {}, jd_extracted |-> {}],
     yr |-> [years_resume |-> 0, years_jd |-> MaxYears, text_resume |-> 0, text_jd |-> 0],
     ats |-> [has_email |-> FALSE, has_phone |-> FALSE, has_bullets |-> FALSE,
              has_dates |-> FALSE, non_ascii_over_20 |-> TRUE, par_breaks |-> 0],
     sections |-> {}]

HiInput ==
    [resume |-> Text(ATS_MIN_LEN, 0), jd |-> Text(10 * MIN_JD, 0),
     kw |-> [n |-> 1, matches |-> 1, nphr |-> 1, exact |-> 1],
     emb |-> [raised |-> FALSE, cos |-> Pt],
     sk |-> [skills_resume |-> SkillNames, skills_jd |-> SkillNames,
             resume_extracted |-> SkillNames, jd_extracted |-> SkillNames],
     yr |-> [years_resume |-> 1, years_jd |-> 1, text_resume |-> 1, text_jd |-> 1],
     ats |-> [has_email |-> TRUE, has_phone |-> TRUE, has_bullets |-> TRUE,
              has_dates |-> TRUE, non_ascii_over_20 |-> FALSE, par_breaks |-> 3],
     sections |-> SectionWords]

Baselines == {LoInput, HiInput}

\* a strong resume whose e-mail address is missing (ats_formatting 85) and whose
\* cosine similarity lies at or just under 3/40: the weighted sum of line 134
\* is then 78.5 + 20 * cos, at or just under the 80-point threshold
NearThresholdInputs ==
    {[HiInput EXCEPT !.ats.has_email = FALSE,
                     !.emb = [raised |-> FALSE, cos |-> (3 * Pt) \div 40 - d]] : d \in 0..2}

Inputs ==
    NearThresholdInputs \cup
    UNION {
        {[b EXCEPT !.resume = r] : r \in ResumeTexts}
        \cup {[b EXCEPT !.jd = j] : j \in JdTexts}
        \cup {[b EXCEPT !.kw = k] : k \in KwInputs}
        \cup {[b EXCEPT !.emb = e] : e \in EmbInputs}
        \cup {[b EXCEPT !.sk.skills_resume = x, !.sk.skills_jd = y] :
                 x \in SUBSET SkillNames, y \in SUBSET SkillNames}
        \cup {[b EXCEPT !.sk.resume_extracted = x, !.sk.jd_extracted = y] :
                 x \in SUBSET SkillNames, y \in SUBSET SkillNames}
        \cup {[b EXCEPT !.yr.years_resume = x, !.yr.years_jd = y] :
                 x \in YearValues, y \in YearValues}
        \cup {[b EXCEPT !.yr.text_resume = x, !.yr.text_jd = y] :
                 x \in YearValues, y \in YearValues}
        \cup {[b EXCEPT !.ats = a] : a \in AtsInputs}
        \cup {[b EXCEPT !.sections = w] : w \in SUBSET SectionWords}
        : b \in Baselines}

(* What generate_content can answer *)

GeminiScores == {0 - 15 * Pt, 0, 50 * Pt, 100 * Pt, 150 * Pt}

ScoreFields ==
    {[t |-> x, v |-> 0] : x \in {"absent", "null", "text"}}
    \cup {[t |-> "num", v |-> g] : g \in GeminiScores}

SugAlphabet == {"Quantify your achievements", "quantify your achievements",
                "add more relevant keywords", NonString}

LongList == <<"s01", "s02", "s03", "s04", "s05", "s06", "s07", "s08", "s09", "s10",
              "s11", "s12">>

SugLists == SeqsUpTo(SugAlphabet, MaxSug) \cup {LongList}

SugFields ==
    {[t |-> x, v |-> <<>>] : x \in {"absent", "unsliceable", "string"}}
    \cup {[t |-> "list", v |-> l] : l \in SugLists}

LineAlphabet == {[bullet |-> TRUE, body |-> "Quantify your achievements", blen |-> 26],
                 [bullet |-> TRUE, body |-> "Add numbers", blen |-> 11],
                 [bullet |-> FALSE, body |-> "Overall the resume is a fair match", blen |-> 34]}

DefaultScore == [t |-> "num", v |-> 50 * Pt]
DefaultSug   == [t |-> "absent", v |-> <<>>]

Response(kind, score, suggestions, lines) ==
    [kind |-> kind, score |-> score, suggestions |-> suggestions, lines |-> lines]

Responses ==
    {Response(k, DefaultScore, DefaultSug, <<>>) : k \in {"raise", "json_other"}}
    \cup {Response("not_json", DefaultScore, DefaultSug, l) :
              l \in SeqsUpTo(LineAlphabet, MaxSug)}
    \cup {Response("json_object", sc, sg, <<>>) : sc \in ScoreFields, sg \in SugFields}

----------------------------------------------------------------------------
(* Actions *)

\* the module is being imported: no scorer yet, no request
Fresh ==
    /\ scorer = "unset"
    /\ gemini_service = "None"
    /\ pc = "idle"
    /\ via = "direct"
    /\ request = None
    /\ inp = None
    /\ loc = None
    /\ result = None
    /\ analysis = None
    /\ http_status = 0
    /\ calls = NoCalls
    /\ built = None

Init ==
    /\ Fresh
    /\ frames = <<>>
    /\ fin = <<>>
    /\ pf = <<>>

\* main.py lines 47-53 (or a library caller): scorer = ResumeScorer(use_gemini=...)
Construct ==
    /\ scorer = "unset"
    /\ \E embed_ok, use_gemini, import_ok, has_api_key, configure_ok \in BOOLEAN :
          LET made == ResumeScorer__init__(embed_ok, use_gemini, import_ok,
                                           has_api_key, configure_ok)
          IN  /\ scorer' = IF made.raised THEN "None" ELSE "ready"
              /\ gemini_service' = made.gemini_service
              /\ built' = Some(HowBuilt(embed_ok, use_gemini, import_ok,
                                        has_api_key, configure_ok))
    /\ UNCHANGED <<pc, via, request, inp, loc, result, analysis, http_status, calls>>
    /\ UNCHANGED others

\* a direct call scorer.score(...)
Score ==
    /\ pc = "idle"
    /\ scorer = "ready"
    /\ \E i \in Inputs : /\ ScoreEnter("direct", i)
                          /\ request' = Some([resume |-> i.resume, jd |-> i.jd])
    /\ UNCHANGED <<scorer, gemini_service, built, others>>

\* generate_content answers (or raises); analyze_resume and score run to their end
EnrichmentAnswers ==
    /\ pc = "enrich"
    /\ \E resp \in Responses :
          LET l  == loc[1]
              ga == analyze_resume(TRUE, l.ml_score, resp)
              m  == MergeAnalysis(l.ml_score, l.base_recommendations, ga)
          IN  /\ analysis' = Some([resp |-> resp, ga |-> ga])
              /\ result' = Some(ScoreResult(l.components, l.ml_score, m))
    /\ pc' = "returned"
    /\ http_status' = StatusAfterScore(via, FALSE)
    /\ UNCHANGED <<scorer, gemini_service, via, request, inp, loc, calls, built, others>>

\* the caller takes the outcome; the next request may start
Finish ==
    /\ pc \in {"returned", "raised", "rejected"}
    /\ pc' = "idle"
    /\ via' = "direct"
    /\ request' = None
    /\ inp' = None
    /\ loc' = None
    /\ result' = None
    /\ analysis' = None
    /\ http_status' = 0
    /\ calls' = NoCalls
    /\ UNCHANGED <<scorer, gemini_service, built, others>>

\* the request is answered without score being called
Reject(caller, i, status) ==
    /\ pc' = "rejected"
    /\ via' = caller
    /\ inp' = Some(i)
    /\ loc' = None
    /\ result' = None
    /\ analysis' = None
    /\ http_status' = status
    /\ calls' = NoCalls

\* what POST /quick-score/ can carry: two texts; skills and years keep their defaults
QuickInputs ==
    {[b EXCEPT !.resume = r, !.jd = j,
               !.sk.skills_resume = {}, !.sk.skills_jd = {},
               !.yr.years_resume = 0, !.yr.years_jd = 0] :
        b \in Baselines, r \in ResumeTexts, j \in JdTexts}

\* main.py quick_score
quick_score ==
    /\ pc = "idle"
    /\ scorer # "unset"
    /\ \E i \in QuickInputs :
          /\ request' = Some([resume |-> i.resume, jd |-> i.jd])
          /\ IF scorer = "None" THEN Reject("quick_score", i, 503)
             ELSE IF i.resume.stripped < MIN_RESUME THEN Reject("quick_score", i, 400)
             ELSE IF i.jd.stripped < MIN_JD THEN Reject("quick_score", i, 400)
             ELSE ScoreEnter("quick_score", i)
    /\ UNCHANGED <<scorer, gemini_service, built, others>>

\* parser_module.extract_text_from_pdfbytes: "" unless pdfminer yields more than
\* 10 non-blank characters
extract_text_from_pdfbytes(upload) ==
    IF ~upload.raises /\ upload.text.stripped > 10 THEN upload.text ELSE Text(0, 0)

GoodUpload(t) == [is_pdf |-> TRUE, too_big |-> FALSE, raises |-> FALSE, text |-> t]

Uploads ==
    {GoodUpload(t) : t \in ResumeTexts \cup {Text(10, 0), Text(11, 0)}}
    \cup UNION {{[GoodUpload(t) EXCEPT !.is_pdf = FALSE],
                 [GoodUpload(t) EXCEPT !.too_big = TRUE],
                 [GoodUpload(t) EXCEPT !.raises = TRUE]} :
                    t \in {Text(0, 0), Text(ATS_MIN_LEN, 0)}}

\* _parse_skills applied to the whole job description (skills_jd=jd, line 319)
JD_AS_SKILL == "<job description text>"

\* main.py analyze_resume (POST /analyze-resume/)
analyze_resume_endpoint ==
    /\ pc = "idle"
    /\ scorer # "unset"
    /\ \E b \in Baselines, upload \in Uploads, jd \in JdTexts,
          skills \in {{}, SkillNames}, years \in {0, MaxYears} :
          LET resume_text == extract_text_from_pdfbytes(upload)
              jd_text == IF jd.stripped > 0 THEN Text(jd.stripped, 0) ELSE resume_text
              i == [b EXCEPT !.resume = resume_text, !.jd = jd_text,
                             !.sk.skills_resume = skills,
                             !.sk.skills_jd = IF jd.stripped = 0 THEN skills
                                              ELSE {JD_AS_SKILL},
                             !.yr.years_resume = years, !.yr.years_jd = years]
          IN  /\ request' = Some([resume |-> resume_text, jd |-> jd])
              /\ IF scorer = "None" THEN Reject("analyze_resume", i, 503)
                 ELSE IF ~upload.is_pdf THEN Reject("analyze_resume", i, 400)
                 ELSE IF upload.too_big THEN Reject("analyze_resume", i, 413)
                 ELSE IF resume_text.stripped < MIN_RESUME
                      THEN Reject("analyze_resume", i, 422)
                 ELSE IF jd_text.len < MIN_JD THEN Reject("analyze_resume", i, 400)
                 ELSE ScoreEnter("analyze_resume", i)
    /\ UNCHANGED <<scorer, gemini_service, built, others>>

Next == Construct \/ Score \/ quick_score \/ analyze_resume_endpoint
          \/ EnrichmentAnswers \/ Finish

Spec == Init /\ [][Next]_vars

\* the program's own steps are taken when enabled; the external service owes nothing
FairSpec == Spec /\ WF_vars(Construct) /\ WF_vars(Finish)

----------------------------------------------------------------------------
(* The scorers as functions of their arguments.  A call is drawn at start,  *)
(* one action per function applies it.                                      *)

\* str.strip().lower() on the items the skills arguments are made of
StripLower(s) ==
    CASE s = " Python " -> "python"
      [] s = "Excel"    -> "excel"
      [] OTHER          -> s

SkillItems == {" Python ", "Excel", ""}

\* items: skills_str.split(',')
_parse_skills(items) == {StripLower(items[k]) : k \in DOMAIN items} \ {""}

\* the skills of COMMON_SKILLS a text can contain
TextSkills == {SkillList[k] : k \in 1..4}

SkillsCalls ==
    {[fn |-> "_calculate_skills_match",
      arg |-> [skills_resume |-> a, skills_jd |-> b,
               resume_extracted |-> x, jd_extracted |-> y],
      out |-> None] :
        a \in SeqsUpTo(SkillItems, 1), b \in SeqsUpTo(SkillItems, MaxItems),
        x \in SUBSET TextSkills, y \in SUBSET TextSkills}

\* what a text says about years: "N years" / "N+ years" (plain), "N-M years"
\* (range), "experience: N" (label)
Mentions ==
    {[kind |-> "plain", n |-> n, m |-> 0] : n \in YearValues}
    \cup {[kind |-> "range", n |-> n, m |-> m] : n \in 1..MaxYears, m \in 2..MaxYears}
    \cup {[kind |-> "label", n |-> n, m |-> 0] : n \in 1..MaxYears}

\* the numbers the three patterns capture in one mention: the first pattern
\* takes the number in front of "years" (the upper end of a range), the second
\* the lower end of a range, the third the number after "experience:"
Captures(mention) ==
    IF mention.kind = "range" THEN {mention.m, mention.n} ELSE {mention.n}

RECURSIVE MaxOf(_)
MaxOf(S) == IF S = {} THEN 0
            ELSE LET x == CHOOSE x \in S : TRUE IN Max(x, MaxOf(S \ {x}))

_extract_years_experience(mentions) ==
    MaxOf(UNION {Captures(mentions[k]) : k \in DOMAIN mentions})

ExperienceCalls ==
    {[fn |-> "_calculate_experience_match",
      arg |-> [years_resume |-> a, years_jd |-> b, resume_text |-> x, jd_text |-> y],
      out |-> None] :
        a \in YearValues, b \in YearValues,
        x \in SeqsUpTo({m \in Mentions : m.kind = "plain"}, 1),
        y \in SeqsUpTo(Mentions, MaxMentions)}

\* component scores at, just under and far from the thresholds of the rules
AroundThreshold(t) == {0, t * Pt - Pt \div 100, t * Pt, 100 * Pt}

RecommendationCalls ==
    {[fn |-> "_generate_recommendations",
      arg |-> [keyword_match |-> k, semantic_similarity |-> 50 * Pt, skills_match |-> s,
               experience_match |-> e, ats_formatting |-> a, section_completeness |-> c],
      out |-> None] :
        k \in AroundThreshold(60), s \in AroundThreshold(50), a \in AroundThreshold(70),
        c \in AroundThreshold(70), e \in AroundThreshold(60)}

\* a resume text as _calculate_ats_score reads it: its length around the two
\* limits, the signals found in it, and the section words it contains
AtsCalls ==
    {[fn |-> "_calculate_ats_score",
      arg |-> [resume |-> Text(n, 0), ats |-> a, sections |-> w],
      out |-> None] :
        n \in {ATS_MIN_LEN - 1, ATS_MIN_LEN, ATS_MAX_LEN, ATS_MAX_LEN + 1},
        a \in AtsInputs,
        w \in {{}, {"experience"}, {"projects"}}}

KeywordCalls ==
    {[fn |-> "_calculate_keyword_match", arg |-> k, out |-> None] : k \in KwInputs}

\* the words the two texts are made of, with len(w); "with" is a stop word and
\* "sql" is shorter than min_word_length
Vocabulary == {"python", "cloud", "with", "sql"}

WordLength(w) ==
    CASE w = "python" -> 6
      [] w = "cloud"  -> 5
      [] w = "with"   -> 4
      [] w = "sql"    -> 3

stop_words == {"the", "and", "for", "with", "this", "that", "from", "have",
               "will", "would", "should", "could", "about", "into", "through"}

\* text: how often each word of the vocabulary occurs in the text
_extract_keywords(text) ==
    {w \in DOMAIN text : /\ WordLength(w) >= MIN_WORD_LENGTH
                          /\ w \notin stop_words
                          /\ text[w] >= 2}

\* how often each word occurs: a job description, a resume
JdWordCounts ==
    {[w \in Vocabulary |-> IF w = "python" THEN a ELSE IF w = "cloud" THEN b
                           ELSE IF w = "with" THEN c ELSE d] :
        a \in {0, 2, 3}, b \in {0, 2, 3}, c \in {0, 2}, d \in {0, 2}}

ResumeWordCounts ==
    {[w \in Vocabulary |-> IF w = "python" THEN a ELSE IF w = "cloud" THEN b
                           ELSE IF w = "with" THEN c ELSE d] :
        a \in {0, 1, 2}, b \in {0, 1, 2}, c \in {0, 2}, d \in {0, 2}}

\* arg.more: further keywords, each twice in the job description and absent
\* from the resume
MissingCalls ==
    {[fn |-> "_get_missing_keywords",
      arg |-> [resume |-> r, jd |-> j, more |-> n],
      out |-> None] :
        r \in ResumeWordCounts, j \in JdWordCounts,
        n \in {0, MAX_MISSING - 1, MAX_MISSING}}

\* lines 506-509: the missing keywords before they are ordered
_get_missing_keywords(arg) ==
    [named |-> _extract_keywords(arg.jd) \ _extract_keywords(arg.resume),
     more  |-> arg.more]

\* lines 512-516 and the [:10] of line 185: the lists that can come out.  The
\* sort puts the keywords that occur most often in the job description first
\* and leaves keywords of equal frequency in the order of the set.
FirstMissing(arg, missing) ==
    LET total == Cardinality(missing.named) + missing.more
        kept  == Min(MAX_MISSING, total)
    IN  {l \in [named : SUBSET missing.named, more : 0..missing.more] :
            /\ Cardinality(l.named) + l.more = kept
            /\ \A w \in missing.named : arg.jd[w] > 2 => w \in l.named}

PureInit ==
    /\ Fresh
    /\ frames = <<>>
    /\ fin = <<>>
    /\ \/ pf \in SkillsCalls
       \/ pf \in ExperienceCalls
       \/ pf \in RecommendationCalls
       \/ pf \in AtsCalls
       \/ pf \in KeywordCalls
       \/ pf \in MissingCalls

Call_calculate_skills_match ==
    /\ pf.fn = "_calculate_skills_match"
    /\ pf.out = None
    /\ pf' = [pf EXCEPT !.out = Some(_calculate_skills_match(
                  [skills_resume    |-> _parse_skills(pf.arg.skills_resume),
                   skills_jd        |-> _parse_skills(pf.arg.skills_jd),
                   resume_extracted |-> pf.arg.resume_extracted,
                   jd_extracted     |-> pf.arg.jd_extracted]))]
    /\ UNCHANGED <<handlerVars, frames, fin>>

Call_calculate_experience_match ==
    /\ pf.fn = "_calculate_experience_match"
    /\ pf.out = None
    /\ pf' = [pf EXCEPT !.out = Some(_calculate_experience_match(
                  [years_resume |-> pf.arg.years_resume,
                   years_jd     |-> pf.arg.years_jd,
                   text_resume  |-> _extract_years_experience(pf.arg.resume_text),
                   text_jd      |-> _extract_years_experience(pf.arg.jd_text)]))]
    /\ UNCHANGED <<handlerVars, frames, fin>>

Call_generate_recommendations ==
    /\ pf.fn = "_generate_recommendations"
    /\ pf.out = None
    /\ pf' = [pf EXCEPT !.out = Some(_generate_recommendations(pf.arg))]
    /\ UNCHANGED <<handlerVars, frames, fin>>

Call_calculate_ats_score ==
    /\ pf.fn = "_calculate_ats_score"
    /\ pf.out = None
    /\ pf' = [pf EXCEPT !.out = Some(_calculate_ats_score(pf.arg.resume, pf.arg.ats,
                                                          pf.arg.sections))]
    /\ UNCHANGED <<handlerVars, frames, fin>>

Call_calculate_keyword_match ==
    /\ pf.fn = "_calculate_keyword_match"
    /\ pf.out = None
    /\ pf' = [pf EXCEPT !.out = Some(_calculate_keyword_match(pf.arg))]
    /\ UNCHANGED <<handlerVars, frames, fin>>

\* "missing_keywords": self._get_missing_keywords(resume_text, jd_text)[:10]
Call_get_missing_keywords ==
    /\ pf.fn = "_get_missing_keywords"
    /\ pf.out = None
    /\ \E l \in FirstMissing(pf.arg, _get_missing_keywords(pf.arg)) :
          pf' = [pf EXCEPT !.out = Some(l)]
    /\ UNCHANGED <<handlerVars, frames, fin>>

PureNext ==
    Call_calculate_skills_match \/ Call_calculate_experience_match
        \/ Call_generate_recommendations
        \/ Call_calculate_ats_score \/ Call_calculate_keyword_match
        \/ Call_get_missing_keywords

PureSpec == PureInit /\ [][PureNext]_vars

----------------------------------------------------------------------------
(* Several callers inside ResumeScorer.score on the one scorer object.  A   *)
(* frame is one activation: its arguments, where it stands, what the        *)
(* enrichment answered, what it returned, and its local variables.          *)

Threads == 1..MaxThreads

IdleFrame == [pc |-> "idle", inp |-> None, resp |-> None, result |-> None,
              loc |-> None, overlapped |-> FALSE]

\* variant: the intermediate values are kept on the scorer object
LocalsOf_on_self(k) == 1

\* components, ml_score, base_recommendations, final_score, all_recommendations
\* and gemini_analysis are local variables of the activation
LocalsOf(k) == k

ConcInputs == Baselines \cup {[LoInput EXCEPT !.resume = Text(0, 0)]}

ConcResponses ==
    {r \in Responses : \/ r.kind = "raise"
                       \/ /\ r.kind = "json_object"
                          /\ r.score.t = "num"
                          /\ r.suggestions = DefaultSug}

NoEnrichment(ml_score, base_recommendations) ==
    [final_score |-> ml_score, all_recommendations |-> base_recommendations,
     gemini_analysis |-> None]

InProgress(f) == f.pc \in {"computed", "merged"}

ConcInit ==
    /\ Fresh
    /\ frames = [k \in Threads |-> IdleFrame]
    /\ fin = <<>>
    /\ pf = <<>>

\* lines 117-140: validation, the six components, ml_score, base recommendations
ConcEnter(k) ==
    /\ scorer = "ready"
    /\ frames[k].pc = "idle"
    /\ \E i \in ConcInputs :
          LET components == ScoreComponents(i)
              ml_score == WeightedSum(components)
              locals == [components |-> components, ml_score |-> ml_score,
                         base_recommendations |-> _generate_recommendations(components),
                         m |-> None]
              overlap == \E j \in Threads \ {k} : InProgress(frames[j])
              entered(j) ==
                  IF j = k
                  THEN [frames[j] EXCEPT !.pc = IF InputTooShort(i) THEN "raised"
                                                ELSE "computed",
                                         !.inp = Some(i),
                                         !.overlapped = overlap /\ ~InputTooShort(i)]
                  ELSE IF InProgress(frames[j]) /\ ~InputTooShort(i)
                       THEN [frames[j] EXCEPT !.overlapped = TRUE]
                       ELSE frames[j]
          IN  frames' = [j \in Threads |->
                            IF j = LocalsOf(k) /\ ~InputTooShort(i)
                            THEN [entered(j) EXCEPT !.loc = Some(locals)]
                            ELSE entered(j)]
    /\ UNCHANGED <<handlerVars, fin, pf>>

\* lines 143-177: the enrichment call, when the service is enabled, and the merge
ConcMerge(k) ==
    /\ frames[k].pc = "computed"
    /\ frames[LocalsOf(k)].loc # None
    /\ LET l == frames[LocalsOf(k)].loc[1]
           merged(j, resp, m) ==
               LET f == IF j = k THEN [frames[j] EXCEPT !.pc = "merged", !.resp = resp]
                        ELSE frames[j]
               IN  IF j = LocalsOf(k) THEN [f EXCEPT !.loc = Some([l EXCEPT !.m = Some(m)])]
                   ELSE f
       IN  IF gemini_service = "enabled"
           THEN \E resp \in ConcResponses :
                   frames' = [j \in Threads |->
                       merged(j, Some(resp),
                              MergeAnalysis(l.ml_score, l.base_recommendations,
                                            analyze_resume(TRUE, l.ml_score, resp)))]
           ELSE frames' = [j \in Threads |->
                       merged(j, None, NoEnrichment(l.ml_score, l.base_recommendations))]
    /\ UNCHANGED <<handlerVars, fin, pf>>

\* lines 179-196: the result is built from the local variables
ConcReturn(k) ==
    /\ frames[k].pc = "merged"
    /\ frames[LocalsOf(k)].loc # None
    /\ frames[LocalsOf(k)].loc[1].m # None
    /\ LET l == frames[LocalsOf(k)].loc[1]
           returned(j) ==
               IF j = k
               THEN [frames[j] EXCEPT !.pc = "returned",
                         !.result = Some(ScoreResult(l.components, l.ml_score, l.m[1]))]
               ELSE frames[j]
       IN  frames' = [j \in Threads |-> returned(j)]
    /\ UNCHANGED <<handlerVars, fin, pf>>

\* the caller has taken the outcome and the local variables are gone; the
\* thread is free for the next call
ConcDone(k) ==
    /\ frames[k].pc \in {"returned", "raised"}
    /\ LET done(j) == IF j = k THEN [IdleFrame EXCEPT !.loc = frames[j].loc]
                      ELSE frames[j]
       IN  frames' = [j \in Threads |->
                         IF j = LocalsOf(k) THEN [done(j) EXCEPT !.loc = None]
                         ELSE done(j)]
    /\ UNCHANGED <<handlerVars, fin, pf>>

ConcNext ==
    \/ Construct
    \/ \E k \in Threads : ConcEnter(k)
    \/ \E k \in Threads : ConcMerge(k)
    \/ \E k \in Threads : ConcReturn(k)
    \/ \E k \in Threads : ConcDone(k)

ConcSpec == ConcInit /\ [][ConcNext]_vars

----------------------------------------------------------------------------
(* scorer_final.py.  Ratios and probabilities are in units of 1/Pt, scores  *)
(* in units of Pt per point as before.  A call is described by what         *)
(* compute_features_array reads in its arguments.                           *)

HEADERS == <<"summary", "experience", "education", "skills", "projects", "achievements">>

\* years far enough apart for both years penalties to reach their cap
FinalYears == {0, MaxYears, 3 * MaxYears}

FinalArgs ==
    [common_words : 0..MaxWords, jd_words : 0..MaxWords,
     sr : {{}, SkillNames}, sj : SUBSET SkillNames,
     years_resume : FinalYears, years_jd : {0, MaxYears},
     bullets : 0..MaxBullets, headers : {0, Len(HEADERS) \div 2, Len(HEADERS)},
     resume_len : {MIN_RESUME}, jd_len : {MIN_JD}]

\* the second value compute_features_array returns (the first is the same
\* numbers in the order sim, overlap, coverage, years_diff, resume_len, jd_len,
\* bullets, headers)
compute_features_array(arg) ==
    LET overlap == Cardinality(arg.sr \cap arg.sj)
    IN  [sim        |-> (arg.common_words * Pt) \div Max(arg.jd_words, 1),
         overlap    |-> overlap,
         coverage   |-> (overlap * Pt) \div Max(Cardinality(arg.sj), 1),
         years_diff |-> IF arg.years_resume >= arg.years_jd
                        THEN arg.years_resume - arg.years_jd
                        ELSE arg.years_jd - arg.years_resume,
         resume_len |-> arg.resume_len,
         jd_len     |-> arg.jd_len,
         bullets    |-> arg.bullets,
         headers    |-> arg.headers]

\* variant: the years penalty is applied to every gap
final_score_composition_always_penalty(prob, meta) ==
    LET base    == prob * 100
        kw_pts  == Min(15 * Pt, 15 * meta.coverage)
        fmt_pts == Min(8 * Pt, (meta.bullets * 7 * Pt) \div 10 + meta.headers * Pt)
        penalty == Min(10 * Pt, (meta.years_diff - 4) * 2 * Pt)
    IN  Round2(Max(0, Min(100 * Pt, base + kw_pts + fmt_pts - penalty)))

final_score_composition(prob, meta) ==
    LET base    == prob * 100
        kw_pts  == Min(15 * Pt, 15 * meta.coverage)
        fmt_pts == Min(8 * Pt, (meta.bullets * 7 * Pt) \div 10 + meta.headers * Pt)
        penalty == IF meta.years_diff > 4
                   THEN Min(10 * Pt, (meta.years_diff - 4) * 2 * Pt) ELSE 0
    IN  Round2(Max(0, Min(100 * Pt, base + kw_pts + fmt_pts - penalty)))

\* the first value compute_features_array returns, before reshape(1, -1)
feature_vector(arg) ==
    LET meta == compute_features_array(arg)
    IN  <<meta.sim, meta.overlap, meta.coverage, meta.years_diff,
          meta.resume_len, meta.jd_len, meta.bullets, meta.headers>>

\* what each column of that vector is, in the names of the training pipeline
\* where it has the quantity (sim is the share of job-description words found
\* in the resume, which the pipeline calls keyword_overlap)
inference_feature_names ==
    <<"keyword_overlap", "num_matching_skills", "skills_match_ratio", "years_difference",
      "resume_char_count", "jd_char_count", "bullet_points", "section_header_count">>

\* train_xgb_pipeline.py: the columns extract_features appends, in order
get_feature_names ==
    <<"semantic_similarity", "keyword_overlap", "skills_match_ratio",
      "num_matching_skills", "total_resume_skills", "experience_match_ratio",
      "years_difference", "resume_char_count", "resume_word_count",
      "resume_line_count", "jd_char_count", "jd_word_count", "bullet_points",
      "paragraph_breaks", "has_experience_section", "has_education_section",
      "has_skills_section", "has_summary_section", "has_projects_section",
      "has_email", "has_phone", "avg_word_length", "jd_keyword_density">>

\* what the files and the loaded objects do during one call: a file is
\* missing, a step raises, or both objects load and work; the scaler was then
\* fitted on n_features_in columns (as many as the inference vector has, or by
\* the training pipeline) and predict_proba would answer prob
Environments ==
    {[kind |-> k, prob |-> 0, n_features_in |-> Len(inference_feature_names)] :
        k \in {"no_model_file", "no_scaler_file", "load_model_raises",
               "load_scaler_raises", "transform_raises", "predict_raises"}}
    \cup {[kind |-> "predicted", prob |-> q, n_features_in |-> n] :
              q \in {0, Pt \div 2, Pt},
              n \in {Len(inference_feature_names), Len(get_feature_names)}}

\* scaler.transform(feats) raises ValueError unless feats has the number of
\* columns the scaler was fitted on
TransformAccepts(arg, env) == Len(feature_vector(arg)) = env.n_features_in

\* lines 92-113: the rule-based score after the try block
FallbackResult(meta) ==
    LET base_score     == meta.sim * 50
        coverage_score == meta.coverage * 30
        format_score   == Min(20 * Pt, (meta.bullets * 2 + meta.headers * 3) * Pt)
        years_penalty  == Min(10 * Pt, meta.years_diff * 2 * Pt)
        final_score    == Max(0, Min(100 * Pt, base_score + coverage_score
                                                   + format_score - years_penalty))
    IN  [probability |-> Round2(final_score) \div 100,
         score       |-> Round2(final_score),
         meta        |-> meta]

\* variant: the trained path is not guarded by try/except
score_resume_no_try(arg, env) ==
    LET meta == compute_features_array(arg)
    IN  IF env.kind \in {"no_model_file", "no_scaler_file"}
        THEN [raised |-> FALSE, value |-> Some(FallbackResult(meta))]
        ELSE IF env.kind = "predicted" /\ TransformAccepts(arg, env)
        THEN [raised |-> FALSE,
              value |-> Some([probability |-> env.prob,
                              score       |-> final_score_composition(env.prob, meta),
                              meta        |-> meta])]
        ELSE [raised |-> TRUE, value |-> None]

score_resume(arg, env) ==
    LET meta == compute_features_array(arg)
    IN  IF env.kind = "predicted" /\ TransformAccepts(arg, env)
        THEN [raised |-> FALSE,
              value |-> Some([probability |-> env.prob,
                              score       |-> final_score_composition(env.prob, meta),
                              meta        |-> meta])]
        ELSE [raised |-> FALSE, value |-> Some(FallbackResult(meta))]

\* the joblib.load calls of lines 75-76 that return an object during a call
LoadsDuring(env) ==
    [clf    |-> IF env.kind \in {"no_model_file", "no_scaler_file", "load_model_raises"}
                THEN 0 ELSE 1,
     scaler |-> IF env.kind \in {"no_model_file", "no_scaler_file", "load_model_raises",
                                 "load_scaler_raises"}
                THEN 0 ELSE 1]

\* one process scoring one resume against one job description, several times
FinalInit ==
    /\ Fresh
    /\ frames = <<>>
    /\ pf = <<>>
    /\ fin \in [arg : FinalArgs, calls : {0}, loads : {[clf |-> 0, scaler |-> 0]},
                env : {None}, out : {None}]
    /\ fin.arg.common_words <= fin.arg.jd_words

Call_score_resume ==
    /\ fin.calls < MaxCalls
    /\ \E env \in Environments :
          fin' = [fin EXCEPT !.calls = @ + 1,
                             !.loads = [clf    |-> @.clf + LoadsDuring(env).clf,
                                        scaler |-> @.scaler + LoadsDuring(env).scaler],
                             !.env = Some(env),
                             !.out = Some(score_resume(fin.arg, env))]
    /\ UNCHANGED <<handlerVars, frames, pf>>

FinalNext == Call_score_resume

FinalSpec == FinalInit /\ [][FinalNext]_vars

----------------------------------------------------------------------------
(* Properties *)

Answered == pc \in {"returned", "raised", "rejected"}

Returned == pc = "returned" /\ result # None

InRange(x) == 0 <= x /\ x <= 100 * Pt

\* the enrichment call fails: generate_content raised (network, auth, timeout), or
\* its output cannot be used by the adapter (not JSON, not a JSON object, a score
\* that is no number, suggestions that are no sequence)
EnrichmentCallFails(resp) ==
    \/ resp.kind \in {"raise", "not_json", "json_other"}
    \/ /\ resp.kind = "json_object"
       /\ (resp.score.t \in {"null", "text"} \/ resp.suggestions.t = "unsliceable")

\* the score g a usable response carries (0.0 when the field is omitted)
CarriedScore(resp) == IF resp.score.t = "absent" THEN 0 ELSE resp.score.v

\* C1: every result returned by score for valid input has overall_score in
\* [0,100], whatever the enrichment does and whatever numeric gemini_score it sends
C1_OverallScoreInRange ==
    Returned => InRange(result[1].overall_score)

\* C2: when the enrichment call fails, the returned overall_score is the
\* pre-enrichment composed score and equals the returned ml_score
C2_FailedEnrichmentKeepsScore ==
    (Returned /\ analysis # None /\ EnrichmentCallFails(analysis[1].resp))
        => /\ result[1].overall_score = result[1].ml_score
           /\ result[1].overall_score = Round2(loc[1].ml_score)

C2_Witness ==
    /\ Returned /\ analysis # None
    /\ analysis[1].resp.kind = "not_json"
    /\ Len(analysis[1].resp.lines) > 0
    /\ result[1].overall_score = result[1].ml_score

\* C3: when the enrichment call fails, the returned ai_analysis is null; it is a
\* block only when enrichment succeeded
C3_FailedEnrichmentNoAnalysis ==
    (Returned /\ analysis # None /\ EnrichmentCallFails(analysis[1].resp))
        => result[1].ai_analysis = None

\* C4: once score has asked the enrichment service, it eventually returns a
\* result, also when the service never answers
C4_ScoreEventuallyReturns ==
    (pc = "enrich") ~> (pc = "returned")

\* C5: analyze_resume never raises to its caller, and on failure hands back
\* combined_score = the ml_score it was given and no suggestions
C5_AnalyzeResumeNeverRaises ==
    analysis # None
        => /\ ~analysis[1].ga.raised
           /\ EnrichmentCallFails(analysis[1].resp)
                 => /\ analysis[1].ga.combined_score = Some(loc[1].ml_score)
                    /\ analysis[1].ga.ai_suggestions = <<>>
                    /\ analysis[1].ga.is_list

C5_Witness ==
    /\ analysis # None
    /\ analysis[1].resp.kind = "json_object"
    /\ analysis[1].resp.score.t = "text"
    /\ analysis[1].resp.suggestions.t = "list"
    /\ analysis[1].resp.suggestions.v # <<>>
    /\ ~analysis[1].ga.raised
    /\ analysis[1].ga.ai_suggestions = <<>>

\* the texts of a request are too short
RequestTooShort ==
    request[1].resume.stripped < MIN_RESUME \/ request[1].jd.stripped < MIN_JD

\* the same, where a blank job description counts as not provided to analyze_resume
RequestTooShortAsProvided ==
    \/ request[1].resume.stripped < MIN_RESUME
    \/ /\ request[1].jd.stripped < MIN_JD
       /\ ~(via = "analyze_resume" /\ request[1].jd.stripped = 0)

ScoreRaisedBeforeAnyWork ==
    /\ pc = "raised" /\ result = None
    /\ calls.components = 0 /\ calls.embedder = 0 /\ calls.gemini = 0

\* C6 as stated: too-short texts make score raise ValueError before any component
\* scorer, the embedder or the enrichment service runs, and make the HTTP callers
\* answer 4xx without calling score
C6_ShortInputRejected_Original ==
    (Answered /\ RequestTooShort)
        => IF via = "direct" THEN ScoreRaisedBeforeAnyWork
           ELSE /\ pc = "rejected" /\ calls.score = 0
                /\ 400 <= http_status /\ http_status <= 499

\* C6 amended: as above, except that the HTTP callers answer 503 while no scorer
\* could be constructed, and analyze_resume takes a blank job description as not
\* provided (it scores the resume against itself)
C6_ShortInputRejected ==
    (pc # "idle" /\ RequestTooShortAsProvided)
        => IF via = "direct" THEN ScoreRaisedBeforeAnyWork
           ELSE /\ pc = "rejected" /\ calls.score = 0 /\ result = None
                /\ scorer = "ready" => (400 <= http_status /\ http_status <= 499)
                /\ scorer = "None" => http_status = 503

C6_Witness ==
    /\ pc = "rejected" /\ via = "analyze_resume" /\ scorer = "ready"
    /\ request[1].resume.stripped >= MIN_RESUME
    /\ request[1].jd.stripped = MIN_JD - 1
    /\ http_status = 400 /\ calls.score = 0

\* C7: each of the six sub-scores of score_breakdown lies in [0,100]
C7_SubScoresInRange ==
    Returned => \A k \in ComponentNames : InRange(result[1].score_breakdown[k])

C7_Witness ==
    /\ Returned
    /\ inp[1].kw.matches = inp[1].kw.n /\ inp[1].kw.n > 0 /\ inp[1].kw.exact > 0
    /\ result[1].score_breakdown.keyword_match = 100 * Pt
    /\ result[1].score_breakdown.experience_match = 30 * Pt
    /\ result[1].score_breakdown.ats_formatting = 0

\* C8: without an enabled enrichment service score calls no external service and
\* returns overall_score = ml_score, the local recommendations and no ai_analysis
C8_NoEnrichmentCompleteResult ==
    (pc # "idle" /\ pc # "rejected" /\ gemini_service # "enabled")
        => /\ calls.gemini = 0 /\ analysis = None
           /\ pc # "enrich"
           /\ ~InputTooShort(inp[1])
                 => /\ Returned
                    /\ result[1].overall_score = result[1].ml_score
                    /\ result[1].recommendations
                           = _generate_recommendations(ScoreComponents(inp[1]))
                    /\ result[1].ai_analysis = None
                    /\ DOMAIN result[1].score_breakdown = ComponentNames

C8_Witness ==
    /\ Returned /\ gemini_service = "disabled"
    /\ result[1].ai_analysis = None
    /\ Len(result[1].recommendations) = MAX_BASE_RECS

\* C9: when enrichment succeeds with score g, overall_score is
\* round(0.6 * base + 0.4 * g, 2), also for g = 0 and for an omitted score field
C9_BlendedScore ==
    (Returned /\ analysis # None /\ ~EnrichmentCallFails(analysis[1].resp))
        => result[1].overall_score
               = Round2((loc[1].ml_score * 6 + CarriedScore(analysis[1].resp) * 4) \div 10)

NoCaseDuplicates(recs) ==
    \A a, b \in 1..Len(recs) : a # b => Lower(recs[a]) # Lower(recs[b])

\* C10: recommendations has no two entries equal ignoring case and at most 15
\* entries; with suggestions supplied it is the local recommendations followed by
\* the suggestions, first occurrences kept
C10_RecommendationsDeduplicated ==
    Returned
        => /\ NoCaseDuplicates(result[1].recommendations)
           /\ Len(result[1].recommendations) <= MAX_RECS
           /\ (analysis # None /\ analysis[1].ga.ai_suggestions # <<>>
                 /\ analysis[1].ga.is_list)
                 => result[1].recommendations
                        = Take(Dedup(loc[1].base_recommendations
                                         \o analysis[1].ga.ai_suggestions, {}), MAX_RECS)

----------------------------------------------------------------------------
\* C11: the match_level of a returned result is the level of the returned
\* overall_score: Excellent Match from 80, Good Match from 60, Fair Match from
\* 40, Needs Improvement below.
C11_MatchLevelOfOverallScore ==
    Returned => result[1].match_level = _get_match_level(result[1].overall_score)

----------------------------------------------------------------------------
\* the request came through one of the two scoring endpoints and was answered
AnsweredOverHttp == Answered /\ via \in {"quick_score", "analyze_resume"} /\ built # None

\* C13: a scoring endpoint answers 503 exactly when the embedding model could
\* not be loaded at start-up; when it was loaded a scorer exists, however the
\* initialisation of the enrichment service went.
C13_UnavailableIffNoEmbedder ==
    /\ AnsweredOverHttp => (http_status = 503 <=> ~built[1].embed_ok)
    /\ built # None /\ built[1].embed_ok => scorer = "ready"

C13_Witness ==
    /\ AnsweredOverHttp
    /\ via = "analyze_resume"
    /\ ~built[1].embed_ok
    /\ http_status = 503

----------------------------------------------------------------------------
\* the function fn has been applied to the drawn arguments
Applied(fn) == pf # <<>> /\ pf.fn = fn /\ pf.out # None

RuleOrder == <<REC_KEYWORDS, REC_SKILLS, REC_ATS, REC_SECTIONS, REC_EXPERIENCE>>

\* the rules whose threshold the component scores breach
BreachedRules(c) ==
    {RuleOrder[k] : k \in {k \in 1..5 :
        \/ k = 1 /\ c.keyword_match < 60 * Pt
        \/ k = 2 /\ c.skills_match < 50 * Pt
        \/ k = 3 /\ c.ats_formatting < 70 * Pt
        \/ k = 4 /\ c.section_completeness < 70 * Pt
        \/ k = 5 /\ c.experience_match < 60 * Pt}}

PositionInRuleOrder(r) == CHOOSE k \in 1..5 : RuleOrder[k] = r

\* C17: _generate_recommendations returns between one and five entries: the
\* texts of the breached rules, once each, in the fixed order keywords, skills,
\* ATS, sections, experience; the positive text appears exactly when no rule is
\* breached and is then the only entry.
C17_RecommendationsByRule ==
    Applied("_generate_recommendations") =>
        LET out == pf.out[1]
            breached == BreachedRules(pf.arg)
        IN  /\ 1 <= Len(out) /\ Len(out) <= 5
            /\ (REC_POSITIVE \in Range(out)) <=> (breached = {})
            /\ breached = {} => out = <<REC_POSITIVE>>
            /\ breached # {} =>
                  /\ Range(out) = breached
                  /\ \A j, k \in DOMAIN out :
                         j < k => PositionInRuleOrder(out[j]) < PositionInRuleOrder(out[k])

C17_Witness ==
    /\ Applied("_generate_recommendations")
    /\ pf.arg.keyword_match >= 60 * Pt
    /\ pf.arg.skills_match < 50 * Pt
    /\ pf.arg.experience_match < 60 * Pt
    /\ pf.out[1] = <<REC_SKILLS, REC_EXPERIENCE>>

\* no positive number of years is stated in the text
NoYearsStated(text) == \A k \in DOMAIN text : text[k].n = 0 /\ text[k].m = 0

\* C18 as stated: with both years arguments 0, experience_match is 75 whatever
\* the two texts contain.
C18_NeutralWhateverTheTexts ==
    Applied("_calculate_experience_match")
        /\ pf.arg.years_resume = 0 /\ pf.arg.years_jd = 0
    => pf.out[1] = 75 * Pt

\* C18: with both years arguments 0, experience_match is 75 whenever the
\* job-description text states no years either, whatever the resume text says.
C18_NeutralWhenJdStatesNoYears ==
    Applied("_calculate_experience_match")
        /\ pf.arg.years_resume = 0 /\ pf.arg.years_jd = 0
        /\ NoYearsStated(pf.arg.jd_text)
    => pf.out[1] = 75 * Pt

C18_Witness ==
    /\ Applied("_calculate_experience_match")
    /\ pf.arg.years_resume = 0 /\ pf.arg.years_jd = 0
    /\ pf.arg.jd_text = <<>>
    /\ ~NoYearsStated(pf.arg.resume_text)
    /\ pf.out[1] = 75 * Pt

\* C19: with both years arguments positive, experience_match is 100 when
\* years_jd <= years_resume <= 1.5 * years_jd, 90 when years_resume exceeds
\* 1.5 * years_jd, max(30, years_resume / years_jd * 100) when years_resume is
\* below years_jd, and never below 30, whatever the texts say.
C19_ExperienceByYears ==
    Applied("_calculate_experience_match")
        /\ pf.arg.years_resume > 0 /\ pf.arg.years_jd > 0
    => LET r == pf.arg.years_resume
           j == pf.arg.years_jd
           out == pf.out[1]
       IN  /\ (j <= r /\ 2 * r <= 3 * j) => out = 100 * Pt
           /\ (2 * r > 3 * j) => out = 90 * Pt
           /\ (r < j) => out = Max(30 * Pt, (r * 100 * Pt) \div j)
           /\ out >= 30 * Pt

C19_Witness ==
    /\ Applied("_calculate_experience_match")
    /\ pf.arg.years_resume > 0
    /\ 10 * pf.arg.years_resume < 3 * pf.arg.years_jd
    /\ pf.out[1] = 30 * Pt

\* the two skill sets skills_match compares: the explicit list united with the
\* skills found in the text
ResumeSkillsOf(arg) == _parse_skills(arg.skills_resume) \cup arg.resume_extracted
JdSkillsOf(arg) == _parse_skills(arg.skills_jd) \cup arg.jd_extracted

\* C20: skills_match is 70 when the job description's skill set is empty;
\* otherwise min(100, |R & J| / |J| * 100 * p) with p = 0.7 when the resume has
\* fewer than three skills and 1 otherwise; {python, sql, aws} against
\* {python, sql, aws, docker} scores 75.
C20_SkillsMatchFormula ==
    Applied("_calculate_skills_match") =>
        LET R == ResumeSkillsOf(pf.arg)
            J == JdSkillsOf(pf.arg)
            p10 == IF Cardinality(R) < 3 THEN 7 ELSE 10
            out == pf.out[1]
        IN  /\ J = {} => out = 70 * Pt
            /\ J # {} => out = Min(100 * Pt,
                               (Cardinality(R \cap J) * 100 * Pt * p10) \div (10 * Cardinality(J)))
            /\ (R = {"python", "sql", "aws"} /\ J = {"python", "sql", "aws", "docker"})
                   => out = 75 * Pt

C20_Witness ==
    /\ Applied("_calculate_skills_match")
    /\ ResumeSkillsOf(pf.arg) = {"python", "sql", "aws"}
    /\ JdSkillsOf(pf.arg) = {"python", "sql", "aws", "docker"}
    /\ pf.out[1] = 75 * Pt

----------------------------------------------------------------------------
\* score_resume has been called and the trained path was not available: a file
\* was missing or loading, scaling or predicting raised
ScoredWithoutArtifacts ==
    /\ fin # <<>> /\ fin.out # None
    /\ \/ fin.env[1].kind # "predicted"
       \/ ~TransformAccepts(fin.arg, fin.env[1])

\* C12: when the model or scaler file is missing, or loading, scaling or
\* predicting raises, score_resume does not raise and returns the keys
\* probability, score and meta, with probability in [0, 1] and score in
\* [0, 100].
C12_ScoreResumeWithoutArtifacts ==
    ScoredWithoutArtifacts =>
        /\ ~fin.out[1].raised
        /\ fin.out[1].value # None
        /\ DOMAIN fin.out[1].value[1] = {"probability", "score", "meta"}
        /\ 0 <= fin.out[1].value[1].probability
        /\ fin.out[1].value[1].probability <= Pt
        /\ InRange(fin.out[1].value[1].score)

C12_Witness ==
    /\ ScoredWithoutArtifacts
    /\ fin.env[1].kind = "predict_raises"
    /\ ~fin.out[1].raised
    /\ fin.out[1].value[1].score = 100 * Pt

\* C14: no model artifact is loaded more than once in a process: the classifier
\* and the scaler of scorer_final are loaded at most once over all calls.
C14_ArtifactsLoadedOnce ==
    fin # <<>> => fin.loads.clf <= 1 /\ fin.loads.scaler <= 1

----------------------------------------------------------------------------
\* what score returns for arguments i when it runs alone on this scorer and the
\* enrichment, if enabled, answers resp
AloneResult(i, resp) ==
    LET components == ScoreComponents(i)
        ml_score == WeightedSum(components)
        base_recommendations == _generate_recommendations(components)
    IN  ScoreResult(components, ml_score,
            IF gemini_service = "enabled"
            THEN MergeAnalysis(ml_score, base_recommendations,
                               analyze_resume(TRUE, ml_score, resp[1]))
            ELSE NoEnrichment(ml_score, base_recommendations))

ConcReturned(k) == frames # <<>> /\ frames[k].pc = "returned"

\* C15: however concurrent calls of score on the one scorer interleave, each
\* returns what it would return alone, and no step of score changes the state
\* of the scorer object.
C15_ConcurrentCallsIndependent ==
    /\ [](\A k \in Threads :
            ConcReturned(k) =>
                frames[k].result[1] = AloneResult(frames[k].inp[1], frames[k].resp))
    /\ [][scorer = "ready" => UNCHANGED <<scorer, gemini_service>>]_vars

C15_Witness ==
    /\ ConcReturned(1) /\ ConcReturned(2)
    /\ frames[1].overlapped /\ frames[2].overlapped
    /\ frames[1].inp # frames[2].inp
    /\ frames[1].result # frames[2].result

----------------------------------------------------------------------------
\* the eight checks of the ATS score on the drawn text
AtsMissingSignals(arg) ==
    (IF arg.ats.has_email THEN 0 ELSE 1) + (IF arg.ats.has_phone THEN 0 ELSE 1)
    + (IF arg.ats.has_bullets THEN 0 ELSE 1) + (IF arg.ats.has_dates THEN 0 ELSE 1)
    + (IF 500 <= arg.resume.len /\ arg.resume.len <= 5000 THEN 0 ELSE 1)
    + (IF arg.sections \cap REQUIRED_SECTIONS # {} THEN 0 ELSE 1)

\* C21: ats_formatting is max(0, min(100, 100 - 15 k - 10 a - 10 b)): k the
\* number of missing signals among e-mail, phone, bullet marker, year, length in
\* [500, 5000] and a recognised section word, a = 1 for more than 20 non-ASCII
\* characters, b = 1 for fewer than 3 paragraph breaks; a text passing all eight
\* checks scores 100.
C21_AtsFormula ==
    Applied("_calculate_ats_score") =>
        LET k == AtsMissingSignals(pf.arg)
            a == IF pf.arg.ats.non_ascii_over_20 THEN 1 ELSE 0
            b == IF pf.arg.ats.par_breaks < 3 THEN 1 ELSE 0
        IN  /\ pf.out[1] = Max(0, Min(100 * Pt, (100 - 15 * k - 10 * a - 10 * b) * Pt))
            /\ (k = 0 /\ a = 0 /\ b = 0) => pf.out[1] = 100 * Pt

C21_Witness ==
    /\ Applied("_calculate_ats_score")
    /\ AtsMissingSignals(pf.arg) = 0
    /\ ~pf.arg.ats.non_ascii_over_20
    /\ pf.arg.ats.par_breaks = 3
    /\ pf.arg.resume.len = 5000
    /\ pf.out[1] = 100 * Pt

\* C22: with at least one JD keyword and the phrase matches held fixed,
\* keyword_match does not decrease when more JD keywords are found in the
\* resume, never exceeds 100, and the phrase bonus adds between 0 and 10; with no
\* JD keyword it is 50.
C22_KeywordMatchMonotone ==
    Applied("_calculate_keyword_match") =>
        LET kw == pf.arg
            out == pf.out[1]
            without_phrases == (kw.matches * 100 * Pt) \div kw.n
        IN  /\ kw.n = 0 => out = 50 * Pt
            /\ kw.n > 0 =>
                  /\ out <= 100 * Pt
                  /\ without_phrases <= 100 * Pt => out >= without_phrases
                  /\ out <= without_phrases + 10 * Pt
                  /\ \A more \in kw.matches..kw.n :
                         _calculate_keyword_match([kw EXCEPT !.matches = more]) >= out

C22_Witness ==
    /\ Applied("_calculate_keyword_match")
    /\ pf.arg.n > 1
    /\ pf.arg.matches > 0 /\ pf.arg.matches < pf.arg.n
    /\ pf.arg.exact > 0
    /\ pf.out[1] > (pf.arg.matches * 100 * Pt) \div pf.arg.n
    /\ pf.out[1] < 100 * Pt

----------------------------------------------------------------------------
\* C30: missing_keywords has at most 10 entries, each a keyword of the job
\* description (four letters or more, no stop word, at least twice in the job
\* description), and none of them occurs in the resume text, where
\* _calculate_keyword_match would count it as matched.
C30_MissingKeywordsConsistent ==
    Applied("_get_missing_keywords") =>
        LET out == pf.out[1]
        IN  /\ Cardinality(out.named) + out.more <= 10
            /\ out.more <= pf.arg.more
            /\ \A w \in out.named :
                   /\ WordLength(w) >= 4 /\ w \notin stop_words /\ pf.arg.jd[w] >= 2
                   /\ pf.arg.resume[w] = 0

----------------------------------------------------------------------------
\* C23: a returned result without ai_analysis has overall_score equal to
\* ml_score and the match_level of ml_score, also when the enrichment answered
\* with a blended score and the merge of its suggestions raised.
C23_NoAnalysisMeansMlScore ==
    (Returned /\ result[1].ai_analysis = None)
        => /\ result[1].overall_score = result[1].ml_score
           /\ result[1].match_level = _get_match_level(loc[1].ml_score)

\* C24: when the enrichment's text is not JSON, analyze_resume hands back as
\* ai_suggestions the bullet lines of the text that are longer than 20
\* characters (at most 10), and all of them are among the recommendations of
\* the result.
C24_TextSuggestionsReachResult ==
    (Returned /\ analysis # None /\ analysis[1].resp.kind = "not_json")
        => LET suggestions == BodiesOf(_extract_suggestions_from_text(analysis[1].resp.lines))
           IN  /\ analysis[1].ga.ai_suggestions = suggestions
               /\ Range(suggestions) \subseteq Range(result[1].recommendations)

\* the weighted sum of the six components, weights in hundredths
ClaimedWeightedSum(c) ==
    (25 * c.keyword_match + 20 * c.semantic_similarity + 25 * c.skills_match
     + 10 * c.experience_match + 10 * c.ats_formatting + 10 * c.section_completeness) \div 100

\* C27: ml_score is the weighted sum of the six components (weights 0.25, 0.20,
\* 0.25, 0.10, 0.10, 0.10) rounded to two decimals, lies in [0, 100], and is
\* the same whatever the enrichment did.
C27_MlScoreIsWeightedSum ==
    Returned
        => /\ result[1].ml_score = Round2(ClaimedWeightedSum(ScoreComponents(inp[1])))
           /\ InRange(result[1].ml_score)

C27_Witness ==
    /\ Returned
    /\ result[1].ai_analysis # None
    /\ result[1].overall_score # result[1].ml_score
    /\ result[1].ml_score = Round2(ClaimedWeightedSum(ScoreComponents(inp[1])))
    /\ result[1].ml_score > 0 /\ result[1].ml_score < 100 * Pt

\* score was called with valid texts and the embedding call raised
ScoredWithFailingEmbedder ==
    /\ Answered /\ pc # "rejected"
    /\ inp # None /\ ~InputTooShort(inp[1])
    /\ inp[1].emb.raised

\* C29: when the embedding call raises during a scoring call, score still
\* returns a full result: semantic_similarity is 50, the other five components
\* and the weighted sum are computed as usual.
C29_EmbeddingFailureAbsorbed ==
    ScoredWithFailingEmbedder
        => /\ Returned
           /\ result[1].score_breakdown.semantic_similarity = 50 * Pt
           /\ result[1].score_breakdown.keyword_match
                  = Round2(_calculate_keyword_match(inp[1].kw))
           /\ result[1].score_breakdown.skills_match
                  = Round2(_calculate_skills_match(inp[1].sk))
           /\ result[1].score_breakdown.experience_match
                  = Round2(_calculate_experience_match(inp[1].yr))
           /\ result[1].score_breakdown.ats_formatting
                  = Round2(_calculate_ats_score(inp[1].resume, inp[1].ats, inp[1].sections))
           /\ result[1].score_breakdown.section_completeness
                  = Round2(_calculate_section_completeness(inp[1].sections))
           /\ result[1].ml_score
                  = Round2(ClaimedWeightedSum(
                        [ScoreComponents(inp[1]) EXCEPT !.semantic_similarity = 50 * Pt]))

C29_Witness ==
    /\ ScoredWithFailingEmbedder
    /\ Returned
    /\ result[1].score_breakdown.semantic_similarity = 50 * Pt
    /\ result[1].score_breakdown.keyword_match = 100 * Pt
    /\ result[1].ml_score = 90 * Pt

----------------------------------------------------------------------------
\* C25: without usable artifacts the probability score_resume returns is
\* 0.5 * similarity + 0.3 * coverage + 0.2 * formatting proxy, the proxy in
\* [0, 1], clamped to [0, 1]; nothing else, the years gap included, enters it.
C25_FallbackSurrogate ==
    ScoredWithoutArtifacts =>
        LET a == fin.arg
            similarity == (a.common_words * Pt) \div Max(a.jd_words, 1)
            coverage == (Cardinality(a.sr \cap a.sj) * Pt) \div Max(Cardinality(a.sj), 1)
            proxy == Min(Pt, ((2 * a.bullets + 3 * a.headers) * Pt) \div 20)
            surrogate == (5 * similarity + 3 * coverage + 2 * proxy) \div 10
        IN  fin.out[1].value[1].probability = Max(0, Min(Pt, surrogate))

\* the trained path answered: both objects loaded, the scaler took the vector
\* and predict_proba gave fin.env[1].prob
ScoredWithArtifacts ==
    /\ fin # <<>> /\ fin.out # None
    /\ fin.env[1].kind = "predicted"
    /\ TransformAccepts(fin.arg, fin.env[1])

ClaimedComposition(p, coverage, bullets, headers, years_diff) ==
    LET q == IF years_diff > 4 THEN Min(10 * Pt, 2 * (years_diff - 4) * Pt) ELSE 0
    IN  Round2(Max(0, Min(100 * Pt,
            100 * p + Min(15 * Pt, 15 * coverage)
                + Min(8 * Pt, (7 * bullets * Pt) \div 10 + headers * Pt) - q)))

\* C26: final_score_composition returns clamp(100 p + min(15, 15 coverage)
\* + min(8, 0.7 bullets + headers) - q, 0, 100) rounded to two decimals, q being
\* min(10, 2 (years_diff - 4)) above a gap of 4 and 0 otherwise; the result is
\* in [0, 100], does not decrease with p or coverage and does not increase with
\* years_diff.
C26_FinalScoreComposition ==
    ScoredWithArtifacts =>
        LET meta == fin.out[1].value[1].meta
            p == fin.env[1].prob
            out == fin.out[1].value[1].score
        IN  /\ out = ClaimedComposition(p, meta.coverage, meta.bullets, meta.headers,
                                        meta.years_diff)
            /\ InRange(out)
            /\ \A p2 \in {0, Pt \div 2, Pt} :
                   p2 >= p => final_score_composition(p2, meta) >= out
            /\ \A c2 \in {0, Pt \div 2, Pt} :
                   c2 >= meta.coverage
                       => final_score_composition(p, [meta EXCEPT !.coverage = c2]) >= out
            /\ \A d2 \in 0..(3 * MaxYears) :
                   d2 >= meta.years_diff
                       => final_score_composition(p, [meta EXCEPT !.years_diff = d2]) <= out

C26_Witness ==
    /\ ScoredWithArtifacts
    /\ fin.out[1].value[1].meta.years_diff > 4
    /\ fin.out[1].value[1].meta.coverage = Pt
    /\ fin.env[1].prob = Pt \div 2
    /\ fin.out[1].value[1].score > 50 * Pt
    /\ fin.out[1].value[1].score < 100 * Pt

\* C28: the vector built at inference time has the columns, in number and
\* order, on which the training pipeline fits the scaler and the model, so a
\* scaler fitted by the pipeline takes the inference vector and the trained
\* model answers.
C28_InferenceMatchesTraining ==
    (fin # <<>> /\ fin.out # None /\ fin.env[1].kind = "predicted"
        /\ fin.env[1].n_features_in = Len(get_feature_names))
    => /\ inference_feature_names = get_feature_names
       /\ Len(feature_vector(fin.arg)) = fin.env[1].n_features_in
       /\ fin.out[1].value[1].score
              = final_score_composition(fin.env[1].prob, fin.out[1].value[1].meta)

====
